---- MODULE Spec2Model ----
(***************************************************************************)
(* Model of the disk-backed TTL cache of daily-briefing (tools/cache.py).  *)
(*                                                                         *)
(* A cache file is a sequence of JSON tokens; json.dumps and json.loads    *)
(* are the operators Dumps and Loads (separators and whitespace elided).   *)
(* get(key, fun, ttl) is split at its visible effects: the lookup (lines   *)
(* 40-53), the call of fun (line 56), the open of write_text, which        *)
(* truncates the file (lines 59-65), and the write and close that put the  *)
(* text into the file (lines 65-70).                                       *)
(***************************************************************************)
EXTENDS Integers, Sequences, FiniteSets, TLC

\* ------------------------------------------------------------------ bounds
MaxTime == 2
MaxTTL == 1

\* ------------------------------------------------------------- JSON values
NullV == [t |-> "null", n |-> 0, s |-> "", items |-> <<>>]
Num(i) == [t |-> "num", n |-> i, s |-> "", items |-> <<>>]
Str(x) == [t |-> "str", n |-> 0, s |-> x, items |-> <<>>]
List(xs) == [t |-> "list", n |-> 0, s |-> "", items |-> xs]
\* a dict is its items in insertion order: key, value, key, value, ...
Dict(kvs) == [t |-> "dict", n |-> 0, s |-> "", items |-> kvs]

Tok(k, i, x) == [k |-> k, n |-> i, s |-> x]
P(k) == Tok(k, 0, "")

\* code-point order of the strings used as dict keys (sort_keys=True)
KeyOrder == <<"items", "payload", "ts", "ttl">>
KeyRank(x) == CHOOSE i \in 1..Len(KeyOrder) : KeyOrder[i] = x

\* sort_keys compares the keys as they are: numbers by value, strings by
\* code point (a dict that mixes the two makes json.dumps raise; no payload
\* here does)
SortRank(k) == IF k.t = "num" THEN k.n ELSE KeyRank(k.s)

\* str(i) of a small int, the text json.dumps gives an int key
IntStr(i) == <<"0", "1", "2", "3", "4", "5", "6", "7", "8", "9">>[i + 1]
KeyText(k) == IF k.t = "num" THEN IntStr(k.n) ELSE k.s

\* the pairs of a dict, sorted by key
RECURSIVE SortedPairs(_)
SortedPairs(kvs) ==
    IF kvs = <<>> THEN <<>>
    ELSE LET idx == {j \in 1..(Len(kvs) \div 2) : TRUE}
             m == CHOOSE j \in idx :
                      \A l \in idx : SortRank(kvs[2*j-1]) <= SortRank(kvs[2*l-1])
             rest == SubSeq(kvs, 1, 2*m-2) \o SubSeq(kvs, 2*m+1, Len(kvs))
         IN <<kvs[2*m-1], kvs[2*m]>> \o SortedPairs(rest)

RECURSIVE Dumps(_), DumpSeq(_), DumpPairs(_)
DumpSeq(xs) == IF xs = <<>> THEN <<>> ELSE Dumps(Head(xs)) \o DumpSeq(Tail(xs))
\* a key is written as a string whatever it was
DumpPairs(kvs) ==
    IF kvs = <<>> THEN <<>>
    ELSE <<Tok("str", 0, KeyText(kvs[1]))>> \o Dumps(kvs[2])
             \o DumpPairs(SubSeq(kvs, 3, Len(kvs)))
Dumps(v) ==
    CASE v.t = "null" -> <<P("null")>>
      [] v.t = "num" -> <<Tok("num", v.n, "")>>
      [] v.t = "str" -> <<Tok("str", 0, v.s)>>
      [] v.t = "list" -> <<P("[")>> \o DumpSeq(v.items) \o <<P("]")>>
      [] v.t = "dict" -> <<P("{")>> \o DumpPairs(SortedPairs(v.items)) \o <<P("}")>>

ParseFail == [ok |-> FALSE, v |-> NullV, next |-> 0]
RECURSIVE ParseValue(_, _), ParseList(_, _, _), ParseDict(_, _, _)
ParseValue(toks, i) ==
    IF i > Len(toks) THEN ParseFail
    ELSE LET tk == toks[i] IN
         CASE tk.k = "null" -> [ok |-> TRUE, v |-> NullV, next |-> i + 1]
           [] tk.k = "num" -> [ok |-> TRUE, v |-> Num(tk.n), next |-> i + 1]
           [] tk.k = "str" -> [ok |-> TRUE, v |-> Str(tk.s), next |-> i + 1]
           [] tk.k = "[" -> ParseList(toks, i + 1, <<>>)
           [] tk.k = "{" -> ParseDict(toks, i + 1, <<>>)
           [] OTHER -> ParseFail
\* mutant: the elements of a list come back in reverse order
ParseListReversed(toks, i, acc) ==
    IF i > Len(toks) THEN ParseFail
    ELSE IF toks[i].k = "]" THEN [ok |-> TRUE, v |-> List(acc), next |-> i + 1]
    ELSE LET r == ParseValue(toks, i) IN
         IF r.ok THEN ParseList(toks, r.next, <<r.v>> \o acc) ELSE ParseFail

ParseList(toks, i, acc) ==
    IF i > Len(toks) THEN ParseFail
    ELSE IF toks[i].k = "]" THEN [ok |-> TRUE, v |-> List(acc), next |-> i + 1]
    ELSE LET r == ParseValue(toks, i) IN
         IF r.ok THEN ParseList(toks, r.next, Append(acc, r.v)) ELSE ParseFail
ParseDict(toks, i, acc) ==
    IF i > Len(toks) THEN ParseFail
    ELSE IF toks[i].k = "}" THEN [ok |-> TRUE, v |-> Dict(acc), next |-> i + 1]
    ELSE IF toks[i].k # "str" THEN ParseFail
    ELSE LET r == ParseValue(toks, i + 1) IN
         IF r.ok THEN ParseDict(toks, r.next, acc \o <<Str(toks[i].s), r.v>>)
         ELSE ParseFail

\* json.loads: one value and nothing after it ("Extra data" otherwise)
Loads(toks) ==
    LET r == ParseValue(toks, 1) IN
    IF r.ok /\ r.next = Len(toks) + 1 THEN [ok |-> TRUE, v |-> r.v]
    ELSE [ok |-> FALSE, v |-> NullV]

\* dict lookups; a repeated key keeps its last value
HasKey(d, x) == \E j \in 1..(Len(d.items) \div 2) : d.items[2*j-1].s = x
Lookup(d, x) ==
    LET j == CHOOSE l \in 1..(Len(d.items) \div 2) :
                 /\ d.items[2*l-1].s = x
                 /\ \A m \in (l+1)..(Len(d.items) \div 2) : d.items[2*m-1].s # x
    IN d.items[2*j]

\* ------------------------------------------------------------ cache files
Procs == {"run1", "run2"}
Keys == {"Feed:A", "feed:a"}
\* mutant: a digest that does not tell the keys apart
_make_keyCollide(x) == "f5a8c44f"

\* hashlib.sha1(key).hexdigest(), first eight digits
_make_key(x) ==
    CASE x = "Feed:A" -> "f5a8c44f"
      [] x = "feed:a" -> "4f4fc877"
Digests == {_make_key(x) : x \in Keys}
TTLs == 0..MaxTTL
Errors == {"RuntimeError:boom", "HTTPError:503"}
\* results fun() can return; their texts differ in length
Payloads == {Str("a"), Dict(<<Str("items"), List(<<>>)>>)}

NoFile == [exists |-> FALSE, toks |-> <<>>]
FileOf(toks) == [exists |-> TRUE, toks |-> toks]
\* files found on disk that no get wrote: cut short, not UTF-8, a JSON
\* list, a JSON object without "payload"
CorruptFiles ==
    { FileOf(<<>>),
      FileOf(<<P("badbyte")>>),
      FileOf(Dumps(List(<<>>))),
      FileOf(Dumps(Dict(<<Str("ts"), Num(0)>>))) }

\* mutant: the entry is not stamped with the clock
EntryUnstamped(result, t, ttl_) ==
    Dict(<<Str("payload"), result, Str("ts"), Num(0), Str("ttl"), Num(ttl_)>>)

\* the dict built at lines 60-64
Entry(result, t, ttl_) ==
    Dict(<<Str("payload"), result, Str("ts"), Num(t), Str("ttl"), Num(ttl_)>>)

\* mutants of the freshness test: nothing is fresh, everything is fresh,
\* strict comparison, one second too long
IsFreshNever(now_, ts, ttl_) == FALSE
IsFreshAlways(now_, ts, ttl_) == TRUE
IsFreshStrict(now_, ts, ttl_) == now_ - ts < ttl_
IsFreshLate(now_, ts, ttl_) == now_ - ts <= ttl_ + 1

\* the freshness test of line 50
IsFresh(now_, ts, ttl_) == now_ - ts <= ttl_

NoOutcome == [kind |-> "none", v |-> NullV, err |-> ""]
Value(v) == [kind |-> "value", v |-> v, err |-> ""]
Raise(e) == [kind |-> "raise", v |-> NullV, err |-> e]

\* Path.read_text: UnicodeDecodeError on bytes that are not UTF-8
ReadText(f) ==
    IF \E i \in 1..Len(f.toks) : f.toks[i].k = "badbyte"
    THEN [ok |-> FALSE, toks |-> <<>>]
    ELSE [ok |-> TRUE, toks |-> f.toks]

\* int(x) of line 48: a number converts, anything else raises
IntOf(v) == IF v.t = "num" THEN [ok |-> TRUE, n |-> v.n] ELSE [ok |-> FALSE, n |-> 0]

\* mutant: freshness is judged by the ttl the entry was written with
TryReadRecorded(f, now_, ttl_) ==
    IF ~f.exists THEN NoOutcome
    ELSE LET raw_ == ReadText(f)
             obj == Loads(raw_.toks)
         IN IF ~raw_.ok \/ ~obj.ok THEN NoOutcome
            ELSE IF obj.v.t # "dict" THEN NoOutcome
            ELSE LET ts == IF HasKey(obj.v, "ts") THEN IntOf(Lookup(obj.v, "ts"))
                           ELSE [ok |-> TRUE, n |-> 0]
                     own == IF HasKey(obj.v, "ttl") THEN IntOf(Lookup(obj.v, "ttl"))
                            ELSE [ok |-> TRUE, n |-> ttl_]
                 IN IF ~ts.ok \/ ~own.ok THEN NoOutcome
                    ELSE IF ~IsFresh(now_, ts.n, own.n) THEN NoOutcome
                    ELSE IF ~HasKey(obj.v, "payload") THEN NoOutcome
                    ELSE Value(Lookup(obj.v, "payload"))

\* mutant: no try/except around the read; a file that does not parse makes
\* get raise
TryReadUnguarded(f, now_, ttl_) ==
    IF ~f.exists THEN NoOutcome
    ELSE LET raw_ == ReadText(f)
             obj == Loads(raw_.toks)
         IN IF ~raw_.ok THEN Raise("UnicodeDecodeError")
            ELSE IF ~obj.ok THEN Raise("JSONDecodeError")
            ELSE IF obj.v.t # "dict" THEN Raise("AttributeError")
            ELSE LET ts == IF HasKey(obj.v, "ts") THEN IntOf(Lookup(obj.v, "ts"))
                           ELSE [ok |-> TRUE, n |-> 0]
                 IN IF ~ts.ok THEN Raise("TypeError")
                    ELSE IF ~IsFresh(now_, ts.n, ttl_) THEN NoOutcome
                    ELSE IF ~HasKey(obj.v, "payload") THEN Raise("KeyError")
                    ELSE Value(Lookup(obj.v, "payload"))

\* lines 44-53 on file f at clock now_: the payload served, or a miss.
\* Every exception between line 46 and line 51 is swallowed at line 52.
TryRead(f, now_, ttl_) ==
    IF ~f.exists THEN NoOutcome
    ELSE LET raw_ == ReadText(f)
             obj == Loads(raw_.toks)
         IN IF ~raw_.ok \/ ~obj.ok THEN NoOutcome
            ELSE IF obj.v.t # "dict" THEN NoOutcome
            ELSE LET ts == IF HasKey(obj.v, "ts") THEN IntOf(Lookup(obj.v, "ts"))
                           ELSE [ok |-> TRUE, n |-> 0]
                 IN IF ~ts.ok THEN NoOutcome
                    ELSE IF ~IsFresh(now_, ts.n, ttl_) THEN NoOutcome
                    ELSE IF ~HasKey(obj.v, "payload") THEN NoOutcome
                    ELSE Value(Lookup(obj.v, "payload"))

\* mutant: the text never reaches the file
WriteAt0Lost(f, text) == f

\* a write of text at offset 0 of a file opened earlier: it replaces the
\* first Len(text) tokens and leaves what lies beyond them
WriteAt0(f, text) ==
    FileOf(text \o SubSeq(f.toks, Len(text) + 1, Len(f.toks)))

VARIABLES
    file,     \* digest -> the cache file data/cache/<digest>.json
    now,      \* int(time.time())
    pc,       \* where each process stands in get
    key,      \* argument key
    ttl,      \* argument ttl
    raw,      \* the file as the lookup found it (lines 44-46)
    tnow,     \* local now of line 49
    funOut,   \* outcome of fun() at line 56
    calls,    \* number of times this get has called fun
    text,     \* the serialized entry handed to write_text
    topen,    \* clock when write_text opened the file
    ret,      \* what get returned or raised
    stored    \* digest -> the entry of the last completed write, the run
              \* that wrote it and the key it was written for

cvars == <<file, now, pc, key, ttl, raw, tnow, funOut, calls, text, topen, ret, stored>>

\* the build command, src/tools/build.py, and what it leaves on disk
VARIABLES
    clock,      \* datetime.now(timezone.utc), counted in days
    official,   \* data/cache/official.json
    lastT,      \* the datetime the last official run handed to
                \* record_official_timestamp
    metaJson,   \* build/metadata.json: "absent", "old" (an earlier run's)
                \* or "current"
    metaSil,    \* build/metadata.sil: the metadata.json it was rendered from
    bpc,        \* where main stands
    args,       \* the parsed command line
    cutoff,     \* cutoff_dt of main
    sec,        \* index in SECTIONS of the section being generated
    silWritten, \* sections whose build/<section>.sil this run wrote
    feed,       \* index of the feed the section is fetching
    items,      \* all_items of the section being generated
    lines,      \* what the comics section rendered, one entry per item
    sile1,      \* outcome of the first SILE pass
    sile2,      \* outcome of the second SILE pass
    cost,       \* cost_info
    printed,    \* lpr was invoked
    raised,     \* the exception that left main
    exit,       \* exit status of the build command
    prompt,     \* what the user typed at the print prompt
    feedCache,  \* comics feed -> what the cache holds for it
    fetchedAt,  \* when an official run last fetched the comics feeds
    dropped,    \* published times the since filter of the comics section removed
    genExit     \* exit status of src/generate.py

bvars == <<clock, official, lastT, metaJson, metaSil, bpc, args, cutoff, sec,
           silWritten, feed, items, lines, sile1, sile2, cost, printed, raised,
           exit, genExit,
           prompt,
           feedCache,
           fetchedAt,
           dropped>>

\* fetch_emails of src/sections/email/build.py
VARIABLES
    epc,        \* where fetch_emails stands
    eacct,      \* index in EMAIL_ACCOUNTS of the account being read
    cutoff_time, \* cutoff_time of fetch_emails
    all_emails, \* all_emails
    inboxes     \* what each account read so far answered to the search

evars == <<epc, eacct, cutoff_time, all_emails, inboxes>>

vars == <<cvars, bvars, evars>>

\* fetch_emails has not been called
NoMail ==
    /\ epc = "idle" /\ eacct = 0 /\ cutoff_time = [t |-> 0, aware |-> TRUE]
    /\ all_emails = <<>> /\ inboxes = <<>>

\* the sections of the document, in order: two that fetch feeds, two that do
\* not, and the metadata box
SECTIONS == <<"email", "rss", "comics", "facebook", "metadata">>
RSS_FEEDS == <<"rss1", "rss2">>
COMIC_FEEDS == <<"comic1", "comic2">>

\* no exit status yet
Running == -1

NoExc == [exc |-> "", at |-> ""]
NoCost == [done |-> FALSE, err |-> FALSE, cents |-> 0]
NoIso == [d |-> 0, off |-> ""]
NoOfficial == [state |-> "absent", iso |-> NoIso]
NoArgs == [official |-> FALSE, skip_sile |-> FALSE]

\* no build is running and none has left anything behind in this process
BuildIdle ==
    /\ bpc = "idle" /\ args = NoArgs /\ cutoff = [t |-> 0, aware |-> TRUE] /\ sec = 0
    /\ silWritten = {} /\ feed = 0 /\ items = <<>> /\ lines = <<>>
    /\ sile1 = "none" /\ sile2 = "none" /\ cost = NoCost /\ printed = FALSE
    /\ raised = NoExc /\ exit = Running /\ genExit = Running
    /\ prompt = "unasked"
    /\ dropped = <<>>

\* a fresh checkout: no build has run
NoBuild ==
    /\ clock = 0 /\ official = NoOfficial /\ lastT = [some |-> FALSE, t |-> 0]
    /\ metaJson = "absent" /\ metaSil = "absent"
    /\ feedCache = [f \in 1..Len(COMIC_FEEDS) |-> "none"]
    /\ fetchedAt = [some |-> FALSE, t |-> 0]
    /\ BuildIdle

NoEntry == [some |-> FALSE, e |-> NullV, by |-> "", k |-> ""]

Idle(p) ==
    /\ pc[p] = "idle" /\ key[p] = "" /\ ttl[p] = 0 /\ raw[p] = NoFile
    /\ tnow[p] = 0 /\ funOut[p] = NoOutcome /\ calls[p] = 0 /\ text[p] = <<>>
    /\ topen[p] = 0 /\ ret[p] = NoOutcome

InitProcs ==
    /\ now = 0
    /\ pc = [p \in Procs |-> "idle"]
    /\ key = [p \in Procs |-> ""]
    /\ ttl = [p \in Procs |-> 0]
    /\ raw = [p \in Procs |-> NoFile]
    /\ tnow = [p \in Procs |-> 0]
    /\ funOut = [p \in Procs |-> NoOutcome]
    /\ calls = [p \in Procs |-> 0]
    /\ text = [p \in Procs |-> <<>>]
    /\ topen = [p \in Procs |-> 0]
    /\ ret = [p \in Procs |-> NoOutcome]
    /\ stored = [d \in Digests |-> NoEntry]

\* a run starts on a cache directory with, per key, no file or a damaged one
Init ==
    /\ file \in [Digests -> {NoFile} \cup CorruptFiles]
    /\ InitProcs
    /\ NoMail
    /\ NoBuild

\* time.time() advances
Tick ==
    /\ now < MaxTime
    /\ now' = now + 1
    /\ UNCHANGED <<file, pc, key, ttl, raw, tnow, funOut, calls, text, topen, ret, stored>>
    /\ UNCHANGED bvars
    /\ UNCHANGED evars

\* mutant: a hit stamps the entry again, with the clock and ttl of the read
GetLookupTouch(p, k, t) ==
    /\ pc[p] = "idle"
    /\ LET f == file[_make_key(k)]
           got == TryRead(f, now, t)
       IN /\ key' = [key EXCEPT ![p] = k]
          /\ ttl' = [ttl EXCEPT ![p] = t]
          /\ raw' = [raw EXCEPT ![p] = f]
          /\ tnow' = [tnow EXCEPT ![p] = now]
          /\ ret' = [ret EXCEPT ![p] = got]
          /\ pc' = [pc EXCEPT ![p] = IF got.kind = "none" THEN "compute" ELSE "done"]
          /\ file' = IF got.kind = "value"
                     THEN [file EXCEPT ![_make_key(k)] = FileOf(Dumps(Entry(got.v, now, t)))]
                     ELSE file
    /\ UNCHANGED <<now, funOut, calls, text, topen, stored>>
    /\ UNCHANGED bvars
    /\ UNCHANGED evars

\* mutant: the file name depends on the run that computes it (a salted
\* hash): the second run looks under another name
GetLookupSalted(p, k, t) ==
    /\ pc[p] = "idle"
    /\ LET other == CHOOSE x \in Keys : x # k
           f == file[_make_key(IF p = "run1" THEN k ELSE other)]
           got == TryRead(f, now, t)
       IN /\ key' = [key EXCEPT ![p] = k]
          /\ ttl' = [ttl EXCEPT ![p] = t]
          /\ raw' = [raw EXCEPT ![p] = f]
          /\ tnow' = [tnow EXCEPT ![p] = now]
          /\ ret' = [ret EXCEPT ![p] = got]
          /\ pc' = [pc EXCEPT ![p] = IF got.kind = "none" THEN "compute" ELSE "done"]
    /\ UNCHANGED <<file, now, funOut, calls, text, topen, stored>>
    /\ UNCHANGED bvars
    /\ UNCHANGED evars

\* get(k, fun, t), lines 40-53: hit and return, or go on to call fun
GetLookup(p, k, t) ==
    /\ pc[p] = "idle"
    /\ LET f == file[_make_key(k)]
           got == TryRead(f, now, t)
       IN /\ key' = [key EXCEPT ![p] = k]
          /\ ttl' = [ttl EXCEPT ![p] = t]
          /\ raw' = [raw EXCEPT ![p] = f]
          /\ tnow' = [tnow EXCEPT ![p] = now]
          /\ ret' = [ret EXCEPT ![p] = got]
          /\ pc' = [pc EXCEPT ![p] = IF got.kind = "none" THEN "compute" ELSE "done"]
    /\ UNCHANGED <<file, now, funOut, calls, text, topen, stored>>
    /\ UNCHANGED bvars
    /\ UNCHANGED evars

\* line 56, fun() returns r
ComputeOk(p, r) ==
    /\ pc[p] = "compute"
    /\ funOut' = [funOut EXCEPT ![p] = Value(r)]
    /\ calls' = [calls EXCEPT ![p] = @ + 1]
    /\ pc' = [pc EXCEPT ![p] = "store"]
    /\ UNCHANGED <<file, now, key, ttl, raw, tnow, text, topen, ret, stored>>
    /\ UNCHANGED bvars
    /\ UNCHANGED evars

\* mutant: a failed fun empties the file the lookup found
ComputeRaiseScrub(p, e) ==
    /\ pc[p] = "compute"
    /\ funOut' = [funOut EXCEPT ![p] = Raise(e)]
    /\ calls' = [calls EXCEPT ![p] = @ + 1]
    /\ ret' = [ret EXCEPT ![p] = Raise(e)]
    /\ pc' = [pc EXCEPT ![p] = "done"]
    /\ file' = [file EXCEPT ![_make_key(key[p])] = IF @.exists THEN FileOf(<<>>) ELSE @]
    /\ UNCHANGED <<now, key, ttl, raw, tnow, text, topen, stored>>
    /\ UNCHANGED bvars
    /\ UNCHANGED evars

\* mutant: the file is opened for writing before fun is called
ComputeRaiseTouch(p, e) ==
    /\ pc[p] = "compute"
    /\ funOut' = [funOut EXCEPT ![p] = Raise(e)]
    /\ calls' = [calls EXCEPT ![p] = @ + 1]
    /\ ret' = [ret EXCEPT ![p] = Raise(e)]
    /\ pc' = [pc EXCEPT ![p] = "done"]
    /\ file' = [file EXCEPT ![_make_key(key[p])] = FileOf(<<>>)]
    /\ UNCHANGED <<now, key, ttl, raw, tnow, text, topen, stored>>
    /\ UNCHANGED bvars
    /\ UNCHANGED evars

\* mutant: a failed fun makes get remove the file of the key
ComputeRaiseUnlink(p, e) ==
    /\ pc[p] = "compute"
    /\ funOut' = [funOut EXCEPT ![p] = Raise(e)]
    /\ calls' = [calls EXCEPT ![p] = @ + 1]
    /\ ret' = [ret EXCEPT ![p] = Raise(e)]
    /\ pc' = [pc EXCEPT ![p] = "done"]
    /\ file' = [file EXCEPT ![_make_key(key[p])] = NoFile]
    /\ UNCHANGED <<now, key, ttl, raw, tnow, text, topen, stored>>
    /\ UNCHANGED bvars
    /\ UNCHANGED evars

\* line 56, fun() raises e: get ends there
ComputeRaise(p, e) ==
    /\ pc[p] = "compute"
    /\ funOut' = [funOut EXCEPT ![p] = Raise(e)]
    /\ calls' = [calls EXCEPT ![p] = @ + 1]
    /\ ret' = [ret EXCEPT ![p] = Raise(e)]
    /\ pc' = [pc EXCEPT ![p] = "done"]
    /\ UNCHANGED <<file, now, key, ttl, raw, tnow, text, topen, stored>>
    /\ UNCHANGED bvars
    /\ UNCHANGED evars

\* lines 59-65: stamp the entry, serialize it, open the file for writing
\* (mode "w" creates it or cuts it to length 0)
OpenTruncate(p) ==
    /\ pc[p] = "store"
    /\ text' = [text EXCEPT ![p] = Dumps(Entry(funOut[p].v, now, ttl[p]))]
    /\ topen' = [topen EXCEPT ![p] = now]
    /\ file' = [file EXCEPT ![_make_key(key[p])] = FileOf(<<>>)]
    /\ pc' = [pc EXCEPT ![p] = "write"]
    /\ UNCHANGED <<now, key, ttl, raw, tnow, funOut, calls, ret, stored>>
    /\ UNCHANGED bvars
    /\ UNCHANGED evars

\* lines 65-70: the buffered text reaches the file when write_text closes
\* it; get returns the result
WriteClose(p) ==
    /\ pc[p] = "write"
    /\ file' = [file EXCEPT ![_make_key(key[p])] = WriteAt0(@, text[p])]
    /\ stored' = [stored EXCEPT ![_make_key(key[p])] =
                     [some |-> TRUE, e |-> Entry(funOut[p].v, topen[p], ttl[p]),
                      by |-> p, k |-> key[p]]]
    /\ ret' = [ret EXCEPT ![p] = Value(funOut[p].v)]
    /\ pc' = [pc EXCEPT ![p] = "done"]
    /\ UNCHANGED <<now, key, ttl, raw, tnow, funOut, calls, text, topen>>
    /\ UNCHANGED bvars
    /\ UNCHANGED evars

\* the caller takes the outcome; the frame of get is gone
Return(p) ==
    /\ pc[p] = "done"
    /\ pc' = [pc EXCEPT ![p] = "idle"]
    /\ key' = [key EXCEPT ![p] = ""]
    /\ ttl' = [ttl EXCEPT ![p] = 0]
    /\ raw' = [raw EXCEPT ![p] = NoFile]
    /\ tnow' = [tnow EXCEPT ![p] = 0]
    /\ funOut' = [funOut EXCEPT ![p] = NoOutcome]
    /\ calls' = [calls EXCEPT ![p] = 0]
    /\ text' = [text EXCEPT ![p] = <<>>]
    /\ topen' = [topen EXCEPT ![p] = 0]
    /\ ret' = [ret EXCEPT ![p] = NoOutcome]
    /\ UNCHANGED <<file, now, stored>>
    /\ UNCHANGED bvars
    /\ UNCHANGED evars

\* the callers of this repository are synchronous: one get at a time
SeqGetLookup(p, k, t) ==
    /\ \A q \in Procs : pc[q] = "idle"
    /\ GetLookup(p, k, t)

Next ==
    \/ Tick
    \/ \E p \in Procs, k \in Keys, t \in TTLs : SeqGetLookup(p, k, t)
    \/ \E p \in Procs, r \in Payloads : ComputeOk(p, r)
    \/ \E p \in Procs, e \in Errors : ComputeRaise(p, e)
    \/ \E p \in Procs : OpenTruncate(p)
    \/ \E p \in Procs : WriteClose(p)
    \/ \E p \in Procs : Return(p)

Spec == Init /\ [][Next]_vars

\* two runs of the build at once on an empty cache directory
InitConc ==
    /\ file = [d \in Digests |-> NoFile]
    /\ InitProcs
    /\ NoMail
    /\ NoBuild

\* both runs want the same feed
ConcKeys == {"Feed:A"}

NextConc ==
    \/ Tick
    \/ \E p \in Procs, k \in ConcKeys, t \in TTLs : GetLookup(p, k, t)
    \/ \E p \in Procs, r \in Payloads : ComputeOk(p, r)
    \/ \E p \in Procs, e \in Errors : ComputeRaise(p, e)
    \/ \E p \in Procs : OpenTruncate(p)
    \/ \E p \in Procs : WriteClose(p)
    \/ \E p \in Procs : Return(p)

SpecConc == InitConc /\ [][NextConc]_vars

\* payloads for the round trip through the file: a number, a list, a dict
\* built out of key order with a dict nested in a list, a dict keyed by an
\* int
RTPayloads ==
    { Num(1),
      List(<<Num(1), Str("b")>>),
      Dict(<<Str("ts"), Str("a"),
             Str("items"), List(<<Dict(<<Str("ttl"), Num(2)>>)>>)>>),
      Dict(<<Num(1), Str("a")>>) }

NextRT ==
    \/ Tick
    \/ \E p \in Procs, k \in ConcKeys, t \in TTLs : SeqGetLookup(p, k, t)
    \/ \E p \in Procs, r \in RTPayloads : ComputeOk(p, r)
    \/ \E p \in Procs : OpenTruncate(p)
    \/ \E p \in Procs : WriteClose(p)
    \/ \E p \in Procs : Return(p)

SpecRT == InitConc /\ [][NextRT]_vars

\* ------------------------------------------------------ the build command

\* the clock stops here
MaxClock == 3

\* timedelta(hours=48), in days
Oldest == 2

\* in cents
PRINT_THRESHOLD_USD == 100

\* an aware datetime in UTC
Utc(t) == [t |-> t, aware |-> TRUE]

\* datetime.isoformat: an aware datetime carries its offset
IsoFormat(dt) == [d |-> dt.t, off |-> IF dt.aware THEN "+00:00" ELSE ""]

\* datetime.fromisoformat: naive when the text has no offset
FromIsoFormat(x) == [t |-> x.d, aware |-> x.off # ""]

\* replace(tzinfo=utc) on a naive datetime, astimezone(utc) on an aware one
AsUtc(dt) == [t |-> dt.t, aware |-> TRUE]

\* max of two aware datetimes
Later(a, b) == IF b.t > a.t THEN b ELSE a

\* mutant: the earlier of the two
get_official_cutoff_timeMin(f, now_) ==
    LET default_cutoff == Utc(now_.t - Oldest) IN
    IF f.state = "valid"
    THEN LET last_official == AsUtc(FromIsoFormat(f.iso)) IN
         IF last_official.t < default_cutoff.t THEN last_official ELSE default_cutoff
    ELSE default_cutoff

\* the later of (last official timestamp, now - oldest); a missing or
\* unreadable official.json counts for nothing
get_official_cutoff_time(f, now_) ==
    LET default_cutoff == Utc(now_.t - Oldest) IN
    IF f.state = "valid"
    THEN Later(AsUtc(FromIsoFormat(f.iso)), default_cutoff)
    ELSE default_cutoff

record_official_timestamp(timestamp) ==
    [state |-> "valid", iso |-> IsoFormat(AsUtc(timestamp))]

\* what a feed's fetch or its cached get gives: a value or an exception
FeedValue(v) == [kind |-> "value", v |-> v, err |-> ""]
FeedRaise(e) == [kind |-> "raise", v |-> "", err |-> e]

FetchErrors == {"HTTPError", "URLError"}

\* rss: _fetch_url is called bare; the items carry published as a datetime
rss_fetch_and_parse_feed(net) ==
    IF net \in FetchErrors THEN FeedRaise(net)
    ELSE IF net = "entries" THEN FeedValue("dtitems")
    ELSE FeedValue("empty")

\* comics: a fetch or parse error becomes a placeholder item, which is the
\* value the function returns
comics_fetch_and_parse_feed(net) ==
    IF net \in FetchErrors \cup {"ParseError"} THEN FeedValue("placeholder")
    ELSE FeedValue("item")

\* json.dumps has no encoder for datetime
Serializable(v) == v # "dtitems"

\* cache.get seen from a section: a fresh entry is returned without calling
\* fun; otherwise fun runs, its exception propagates, and its value is
\* serialized and stored before it is returned
cache_get(hit, cached, out) ==
    IF hit THEN FeedValue(cached)
    ELSE IF out.kind = "raise" THEN out
    ELSE IF ~Serializable(out.v) THEN FeedRaise("TypeError")
    ELSE out

\* mutant: a missing binary is reported as success
_run_sileQuiet(out) ==
    IF out = "notfound" THEN 0
    ELSE IF out \in {"fail", "errors"} THEN 1
    ELSE 0

\* the return code of one SILE pass: 127 when the binary is missing, the
\* process's non-zero code, 1 when the output shows an error, else 0
_run_sile(out) ==
    IF out = "notfound" THEN 127
    ELSE IF out \in {"fail", "errors"} THEN 1
    ELSE 0

SileOutcomes == {"ok", "fail", "errors", "notfound"}

CostInfos ==
    { [done |-> TRUE, err |-> TRUE, cents |-> 0],
      [done |-> TRUE, err |-> FALSE, cents |-> 99],
      [done |-> TRUE, err |-> FALSE, cents |-> 100] }

Stale(m) == IF m = "absent" THEN "absent" ELSE "old"

InSection(s) == bpc = "sections" /\ SECTIONS[sec] = s

\* an exception nobody catches leaves main: Python exits with status 1
Propagate(e, at) ==
    /\ raised' = [exc |-> e, at |-> at]
    /\ exit' = 1
    /\ bpc' = "exited"

\* _write_sil, and the loop goes on to the next section
WriteSil ==
    /\ silWritten' = silWritten \cup {SECTIONS[sec]}
    /\ sec' = sec + 1
    /\ feed' = 1
    /\ items' = <<>>
    /\ lines' = <<>>
    /\ bpc' = IF sec = Len(SECTIONS) THEN "metajson" ELSE "sections"

\* time passes; main reads the clock when it starts and again just before it
\* records the official timestamp
Advance ==
    /\ clock < MaxClock
    /\ bpc \in {"idle", "exited", "record"}
    /\ clock' = clock + 1
    /\ UNCHANGED <<official, lastT, metaJson, metaSil, bpc, args, cutoff, sec,
                   silWritten, feed, items, lines, sile1, sile2, cost, printed,
                   raised, exit, genExit>>
    /\ UNCHANGED cvars
    /\ UNCHANGED evars
    /\ UNCHANGED <<prompt, feedCache, fetchedAt, dropped>>

\* main up to the section loop: the arguments, the directories, the cutoff
Start(a) ==
    /\ bpc \in {"idle", "exited"}
    /\ args' = a
    /\ cutoff' = get_official_cutoff_time(official, Utc(clock))
    /\ bpc' = "sections"
    /\ sec' = 1 /\ feed' = 1 /\ silWritten' = {} /\ items' = <<>> /\ lines' = <<>>
    /\ sile1' = "none" /\ sile2' = "none" /\ cost' = NoCost /\ printed' = FALSE
    /\ raised' = NoExc /\ exit' = Running /\ genExit' = Running
    /\ metaJson' = Stale(metaJson) /\ metaSil' = Stale(metaSil)
    /\ UNCHANGED <<clock, official, lastT>>
    /\ prompt' = "unasked"
    /\ dropped' = <<>>
    /\ UNCHANGED cvars
    /\ UNCHANGED evars
    /\ UNCHANGED <<feedCache, fetchedAt>>

\* a section that fetches no feed: its generate_sil returns or raises
GenerateSection(ok) ==
    /\ bpc = "sections" /\ SECTIONS[sec] \in {"email", "facebook"}
    /\ IF ok
       THEN WriteSil /\ UNCHANGED <<raised, exit>>
       ELSE Propagate("Exception", SECTIONS[sec])
            /\ UNCHANGED <<sec, silWritten, feed, items, lines>>
    /\ UNCHANGED <<clock, official, lastT, metaJson, metaSil, args, cutoff,
                   sile1, sile2, cost, printed, genExit>>
    /\ UNCHANGED cvars
    /\ UNCHANGED evars
    /\ UNCHANGED <<prompt, feedCache, fetchedAt, dropped>>

\* one turn of the loop of fetch_rss: the cached get, then the since filter,
\* which keeps an item only if its published is a datetime at or after since
FetchRssFeed(hit, cached, net, recent) ==
    /\ InSection("rss") /\ feed <= Len(RSS_FEEDS)
    /\ LET got == cache_get(hit, cached, rss_fetch_and_parse_feed(net)) IN
       IF got.kind = "raise"
       THEN Propagate(got.err, "rss") /\ UNCHANGED <<feed, items>>
       ELSE /\ feed' = feed + 1
            /\ items' = IF got.v = "dtitems" /\ recent
                        THEN Append(items, "item") ELSE items
            /\ UNCHANGED <<bpc, raised, exit>>
    /\ UNCHANGED <<clock, official, lastT, metaJson, metaSil, args, cutoff, sec,
                   silWritten, lines, sile1, sile2, cost, printed, genExit>>
    /\ UNCHANGED cvars
    /\ UNCHANGED evars
    /\ UNCHANGED <<prompt, feedCache, fetchedAt, dropped>>

\* the rest of the rss generate_sil
RenderRss ==
    /\ InSection("rss") /\ feed > Len(RSS_FEEDS)
    /\ WriteSil
    /\ UNCHANGED <<clock, official, lastT, metaJson, metaSil, args, cutoff,
                   sile1, sile2, cost, printed, raised, exit, genExit>>
    /\ UNCHANGED cvars
    /\ UNCHANGED evars
    /\ UNCHANGED <<prompt, feedCache, fetchedAt, dropped>>

\* one turn of the loop of fetch_comics: the cached get on the feed's key,
\* which serves a fresh entry and else stores what the fetch returns, then
\* the since filter, which keeps an item published at or after since; a
\* placeholder made now is published now
FetchComicFeed(fresh, net, pub) ==
    /\ InSection("comics") /\ feed <= Len(COMIC_FEEDS)
    /\ LET hit == fresh /\ feedCache[feed] # "none"
           got == cache_get(hit, feedCache[feed], comics_fetch_and_parse_feed(net))
           published == IF ~hit /\ got.v = "placeholder" THEN clock ELSE pub
       IN IF got.kind = "raise"
          THEN Propagate(got.err, "comics")
               /\ UNCHANGED <<feed, items, feedCache, fetchedAt, dropped>>
          ELSE /\ feed' = feed + 1
               /\ IF published >= cutoff.t
                  THEN items' = Append(items, got.v) /\ UNCHANGED dropped
                  ELSE dropped' = Append(dropped, published) /\ UNCHANGED items
               /\ feedCache' = IF hit THEN feedCache
                               ELSE [feedCache EXCEPT ![feed] = got.v]
               /\ UNCHANGED fetchedAt
               /\ UNCHANGED <<bpc, raised, exit>>
    /\ UNCHANGED <<clock, official, lastT, metaJson, metaSil, args, cutoff, sec,
                   silWritten, lines, sile1, sile2, cost, printed, genExit>>
    /\ UNCHANGED cvars
    /\ UNCHANGED evars
    /\ UNCHANGED <<prompt>>

\* _render_item_group for one item: the extraction through the cached get;
\* on failure the fallback line is appended and the exception raised again
ExtractComic(ok) ==
    /\ InSection("comics") /\ feed > Len(COMIC_FEEDS)
    /\ Len(lines) < Len(items)
    /\ IF ok
       THEN lines' = Append(lines, "comic") /\ UNCHANGED <<bpc, raised, exit>>
       ELSE lines' = Append(lines, "fallback") /\ Propagate("ExtractionError", "comics")
    /\ UNCHANGED <<clock, official, lastT, metaJson, metaSil, args, cutoff, sec,
                   silWritten, feed, items, sile1, sile2, cost, printed, genExit>>
    /\ UNCHANGED cvars
    /\ UNCHANGED evars
    /\ UNCHANGED <<prompt, feedCache, fetchedAt, dropped>>

\* the rest of the comics generate_sil
RenderComics ==
    /\ InSection("comics") /\ feed > Len(COMIC_FEEDS)
    /\ Len(lines) = Len(items)
    /\ WriteSil
    /\ dropped' = <<>>
    /\ fetchedAt' = IF args.official THEN [some |-> TRUE, t |-> clock] ELSE fetchedAt
    /\ UNCHANGED <<clock, official, lastT, metaJson, metaSil, args, cutoff,
                   sile1, sile2, cost, printed, raised, exit, genExit>>
    /\ UNCHANGED cvars
    /\ UNCHANGED evars
    /\ UNCHANGED <<prompt, feedCache>>

\* the metadata section inside the loop: it reads build/metadata.json as it
\* is on disk at that moment
GenerateMetadataSil ==
    /\ InSection("metadata")
    /\ IF metaJson = "absent"
       THEN Propagate("FileNotFoundError", "metadata")
            /\ UNCHANGED <<metaSil, sec, silWritten, feed, items, lines>>
       ELSE metaSil' = metaJson /\ WriteSil /\ UNCHANGED <<raised, exit>>
    /\ UNCHANGED <<clock, official, lastT, metaJson, args, cutoff,
                   sile1, sile2, cost, printed, genExit>>
    /\ UNCHANGED cvars
    /\ UNCHANGED evars
    /\ UNCHANGED <<prompt, feedCache, fetchedAt, dropped>>

\* after the loop: build/metadata.json of this run, then build/main.sil
WriteMetadataJson ==
    /\ bpc = "metajson"
    /\ metaJson' = "current"
    /\ bpc' = "record"
    /\ UNCHANGED <<clock, official, lastT, metaSil, args, cutoff, sec,
                   silWritten, feed, items, lines, sile1, sile2, cost, printed,
                   raised, exit, genExit>>
    /\ UNCHANGED cvars
    /\ UNCHANGED evars
    /\ UNCHANGED <<prompt, feedCache, fetchedAt, dropped>>

\* mutant: every run records its time
RecordOfficialAlways(mainExists) ==
    /\ bpc = "record"
    /\ IF TRUE
       THEN /\ official' = record_official_timestamp(Utc(clock))
            /\ lastT' = [some |-> TRUE, t |-> clock]
       ELSE UNCHANGED <<official, lastT>>
    /\ IF args.skip_sile THEN exit' = 0 /\ bpc' = "exited"
       ELSE IF ~mainExists THEN exit' = 2 /\ bpc' = "exited"
       ELSE bpc' = "sile1" /\ UNCHANGED exit
    /\ UNCHANGED <<clock, metaJson, metaSil, args, cutoff, sec, silWritten,
                   feed, items, lines, sile1, sile2, cost, printed, raised,
                   genExit>>
    /\ UNCHANGED cvars
    /\ UNCHANGED evars
    /\ UNCHANGED <<prompt, feedCache, fetchedAt, dropped>>

\* the official timestamp, --skip-sile, and the check that the entrypoint
\* exists
RecordOfficial(mainExists) ==
    /\ bpc = "record"
    /\ IF args.official
       THEN /\ official' = record_official_timestamp(Utc(clock))
            /\ lastT' = [some |-> TRUE, t |-> clock]
       ELSE UNCHANGED <<official, lastT>>
    /\ IF args.skip_sile THEN exit' = 0 /\ bpc' = "exited"
       ELSE IF ~mainExists THEN exit' = 2 /\ bpc' = "exited"
       ELSE bpc' = "sile1" /\ UNCHANGED exit
    /\ UNCHANGED <<clock, metaJson, metaSil, args, cutoff, sec, silWritten,
                   feed, items, lines, sile1, sile2, cost, printed, raised,
                   genExit>>
    /\ UNCHANGED cvars
    /\ UNCHANGED evars
    /\ UNCHANGED <<prompt, feedCache, fetchedAt, dropped>>

\* the first SILE pass; main returns its code when it is not 0
RunSile1(out) ==
    /\ bpc = "sile1"
    /\ sile1' = out
    /\ IF _run_sile(out) # 0
       THEN exit' = _run_sile(out) /\ bpc' = "exited"
       ELSE bpc' = "cost" /\ UNCHANGED exit
    /\ UNCHANGED <<clock, official, lastT, metaJson, metaSil, args, cutoff, sec,
                   silWritten, feed, items, lines, sile2, cost, printed, raised,
                   genExit>>
    /\ UNCHANGED cvars
    /\ UNCHANGED evars
    /\ UNCHANGED <<prompt, feedCache, fetchedAt, dropped>>

\* the printing cost, written into build/metadata.json, and metadata.sil
\* rendered again from it
CalculateCost(c) ==
    /\ bpc = "cost"
    /\ cost' = c
    /\ metaSil' = metaJson
    /\ bpc' = "sile2"
    /\ UNCHANGED <<clock, official, lastT, metaJson, args, cutoff, sec,
                   silWritten, feed, items, lines, sile1, sile2, printed,
                   raised, exit, genExit>>
    /\ UNCHANGED cvars
    /\ UNCHANGED evars
    /\ UNCHANGED <<prompt, feedCache, fetchedAt, dropped>>

\* the second SILE pass: main does not look at what it returns
RunSile2(out) ==
    /\ bpc = "sile2"
    /\ sile2' = out
    /\ IF args.official
       THEN bpc' = "print" /\ UNCHANGED exit
       ELSE exit' = 0 /\ bpc' = "exited"
    /\ UNCHANGED <<clock, official, lastT, metaJson, metaSil, args, cutoff, sec,
                   silWritten, feed, items, lines, sile1, cost, printed, raised,
                   genExit>>
    /\ UNCHANGED cvars
    /\ UNCHANGED evars
    /\ UNCHANGED <<prompt, feedCache, fetchedAt, dropped>>

\* what input() can give at the prompt, "EOF" for EOFError
Answers == {"y", "YES", " Yes ", "n", "", "yep", "EOF"}

\* ans.strip().lower()
StripLower(ans) ==
    IF ans = "YES" THEN "yes"
    ELSE IF ans = " Yes " THEN "yes"
    ELSE ans

\* mutant: anything typed counts as yes
_prompt_yes_noLenient(ans) ==
    IF ans = "EOF" THEN FALSE ELSE ans # ""

\* True only for 'y'/'yes', case-insensitive; False on EOF
_prompt_yes_no(ans) ==
    IF ans = "EOF" THEN FALSE ELSE StripLower(ans) \in {"y", "yes"}

\* an official build decides whether to print: never without a cost, at once
\* under the threshold, else on the user's answer; a failing lpr is reported
\* and main returns 0 all the same
DecidePrint(ans) ==
    /\ bpc = "print"
    /\ IF cost.err
       THEN printed' = FALSE /\ prompt' = "unasked"
       ELSE IF cost.cents < PRINT_THRESHOLD_USD
       THEN printed' = TRUE /\ prompt' = "unasked"
       ELSE printed' = _prompt_yes_no(ans) /\ prompt' = ans
    /\ exit' = 0
    /\ bpc' = "exited"
    /\ UNCHANGED <<clock, official, lastT, metaJson, metaSil, args, cutoff, sec,
                   silWritten, feed, items, lines, sile1, sile2, cost, raised,
                   genExit>>
    /\ UNCHANGED cvars
    /\ UNCHANGED evars
    /\ UNCHANGED <<feedCache, fetchedAt, dropped>>

\* main of src/generate.py as a function of what it meets
generate_main(which, input, mkdir, run) ==
    IF ~which THEN 127
    ELSE IF ~input THEN 2
    ELSE IF ~mkdir THEN 3
    ELSE IF run = "oserror" THEN 126
    ELSE IF run = "fail" THEN 1
    ELSE 0

\* the stand-alone typesetting command, run before any build
Generate(which, input, mkdir, run) ==
    /\ bpc = "idle"
    /\ genExit' = generate_main(which, input, mkdir, run)
    /\ UNCHANGED <<clock, official, lastT, metaJson, metaSil, bpc, args, cutoff,
                   sec, silWritten, feed, items, lines, sile1, sile2, cost,
                   printed, raised, exit>>
    /\ UNCHANGED cvars
    /\ UNCHANGED evars
    /\ UNCHANGED <<prompt, feedCache, fetchedAt, dropped>>

Args == [official : BOOLEAN, skip_sile : BOOLEAN]

\* when an item of a feed can have been published: from before any cutoff
\* up to now
Published == (clock - Oldest - 1)..clock

\* the build directory is empty or holds an earlier build; official.json is
\* missing or unreadable
InitBuild ==
    /\ file = [d \in Digests |-> NoFile]
    /\ InitProcs
    /\ NoMail
    /\ clock = 0
    /\ official \in {NoOfficial, [state |-> "corrupt", iso |-> NoIso]}
    /\ lastT = [some |-> FALSE, t |-> 0]
    /\ metaJson \in {"absent", "old"}
    /\ metaSil = metaJson
    /\ feedCache = [f \in 1..Len(COMIC_FEEDS) |-> "none"]
    /\ fetchedAt = [some |-> FALSE, t |-> 0]
    /\ BuildIdle

NextBuild ==
    \/ Advance
    \/ \E a \in Args : Start(a)
    \/ \E ok \in BOOLEAN : GenerateSection(ok)
    \/ \E hit \in BOOLEAN, cached \in {"empty", "item"},
          net \in {"entries", "empty"} \cup FetchErrors,
          recent \in BOOLEAN : FetchRssFeed(hit, cached, net, recent)
    \/ RenderRss
    \/ \E fresh \in BOOLEAN, net \in {"entries", "ParseError"} \cup FetchErrors,
          pub \in Published : FetchComicFeed(fresh, net, pub)
    \/ \E ok \in BOOLEAN : ExtractComic(ok)
    \/ RenderComics
    \/ GenerateMetadataSil
    \/ WriteMetadataJson
    \/ \E mainExists \in BOOLEAN : RecordOfficial(mainExists)
    \/ \E out \in SileOutcomes : RunSile1(out)
    \/ \E c \in CostInfos : CalculateCost(c)
    \/ \E out \in SileOutcomes : RunSile2(out)
    \/ \E ans \in Answers : DecidePrint(ans)
    \/ \E which \in BOOLEAN, input \in BOOLEAN, mkdir \in BOOLEAN,
          run \in {"ok", "fail", "oserror"} : Generate(which, input, mkdir, run)

SpecBuild == InitBuild /\ [][NextBuild]_vars

\* official builds one after the other, data only, in which nothing fails
\* and no feed is served from the cache
InitOfficial ==
    /\ file = [d \in Digests |-> NoFile]
    /\ InitProcs
    /\ NoMail
    /\ clock = 0
    /\ official = NoOfficial
    /\ lastT = [some |-> FALSE, t |-> 0]
    /\ metaJson = "old"
    /\ metaSil = "old"
    /\ feedCache = [f \in 1..Len(COMIC_FEEDS) |-> "none"]
    /\ fetchedAt = [some |-> FALSE, t |-> 0]
    /\ BuildIdle

NextOfficial ==
    \/ Advance
    \/ Start([official |-> TRUE, skip_sile |-> TRUE])
    \/ GenerateSection(TRUE)
    \/ FetchRssFeed(FALSE, "empty", "empty", FALSE)
    \/ RenderRss
    \/ \E pub \in Published : FetchComicFeed(FALSE, "entries", pub)
    \/ ExtractComic(TRUE)
    \/ RenderComics
    \/ GenerateMetadataSil
    \/ WriteMetadataJson
    \/ RecordOfficial(TRUE)

SpecOfficial == InitOfficial /\ [][NextOfficial]_vars

\* ------------------------------------------------------------ fetch_emails

EMAIL_ACCOUNTS == <<"hr@hrhr.dev", "outlook">>

\* timedelta(days=365*100), in days
Century == 36500

\* the dates an unread message can carry: before and after an official run
\* recorded on day 1
MailDates == {0, 2}

\* what the search of one account can answer: up to two unread messages,
\* each given by its date
Inboxes == {<<>>} \cup {<<d>> : d \in MailDates}
               \cup {<<d1, d2>> : d1 \in MailDates, d2 \in MailDates}

\* get_official_cutoff_time(oldest=timedelta(days=365*100))
email_cutoff_time(f, now_) ==
    LET default_cutoff == Utc(now_.t - Century) IN
    IF f.state = "valid"
    THEN Later(AsUtc(FromIsoFormat(f.iso)), default_cutoff)
    ELSE default_cutoff

\* the message number j of account i
Mail(i, j, d) == [account |-> i, msgid |-> j, date |-> d]

\* extract_email_metadata over the response, None results filtered out
ValidEmails(i, msgs, cut) ==
    LET F[j \in 0..Len(msgs)] ==
            IF j = 0 THEN <<>>
            ELSE IF msgs[j] < cut.t THEN F[j - 1]
            ELSE Append(F[j - 1], Mail(i, j, msgs[j]))
    IN F[Len(msgs)]

\* list.sort(key=date, reverse=True): stable, most recent first
RECURSIVE InsertByDate(_, _)
InsertByDate(sorted, x) ==
    IF sorted = <<>> THEN <<x>>
    ELSE IF Head(sorted).date >= x.date
    THEN <<Head(sorted)>> \o InsertByDate(Tail(sorted), x)
    ELSE <<x>> \o sorted

RECURSIVE SortByDate(_)
SortByDate(xs) ==
    IF xs = <<>> THEN <<>>
    ELSE InsertByDate(SortByDate(SubSeq(xs, 1, Len(xs) - 1)), xs[Len(xs)])

\* fetch_emails up to its loop
EmailStart ==
    /\ epc = "idle"
    /\ cutoff_time' = email_cutoff_time(official, Utc(clock))
    /\ all_emails' = <<>>
    /\ inboxes' = <<>>
    /\ eacct' = 1
    /\ epc' = "loop"
    /\ UNCHANGED cvars
    /\ UNCHANGED bvars

\* one turn of the loop over EMAIL_ACCOUNTS: connect and log in, search the
\* unread messages and, if there are any, process them
FetchAccount(login, msgs) ==
    /\ epc = "loop" /\ eacct <= Len(EMAIL_ACCOUNTS)
    /\ IF ~login
       THEN epc' = "raised" /\ UNCHANGED <<eacct, all_emails, inboxes>>
       ELSE /\ inboxes' = Append(inboxes, msgs)
            /\ all_emails' = IF msgs # <<>>
                             THEN ValidEmails(eacct, msgs, cutoff_time)
                             ELSE all_emails
            /\ eacct' = eacct + 1
            /\ UNCHANGED epc
    /\ UNCHANGED cutoff_time
    /\ UNCHANGED cvars
    /\ UNCHANGED bvars

\* after the loop: sort and return
ReturnEmails ==
    /\ epc = "loop" /\ eacct > Len(EMAIL_ACCOUNTS)
    /\ all_emails' = SortByDate(all_emails)
    /\ epc' = "done"
    /\ UNCHANGED <<eacct, cutoff_time, inboxes>>
    /\ UNCHANGED cvars
    /\ UNCHANGED bvars

\* the next call
EmailAgain ==
    /\ epc \in {"done", "raised"}
    /\ epc' = "idle" /\ eacct' = 0 /\ cutoff_time' = Utc(0)
    /\ all_emails' = <<>> /\ inboxes' = <<>>
    /\ UNCHANGED cvars
    /\ UNCHANGED bvars

\* no official run yet, or one recorded on day 1; it is day 2
InitEmail ==
    /\ file = [d \in Digests |-> NoFile]
    /\ InitProcs
    /\ NoMail
    /\ clock = 2
    /\ \/ official = NoOfficial /\ lastT = [some |-> FALSE, t |-> 0]
       \/ official = record_official_timestamp(Utc(1)) /\ lastT = [some |-> TRUE, t |-> 1]
    /\ metaJson = "absent" /\ metaSil = "absent"
    /\ feedCache = [f \in 1..Len(COMIC_FEEDS) |-> "none"]
    /\ fetchedAt = [some |-> FALSE, t |-> 0]
    /\ BuildIdle

NextEmail ==
    \/ EmailStart
    \/ \E login \in BOOLEAN, msgs \in Inboxes : FetchAccount(login, msgs)
    \/ ReturnEmails
    \/ EmailAgain

SpecEmail == InitEmail /\ [][NextEmail]_vars

TypeOK ==
    /\ now \in 0..MaxTime
    /\ pc \in [Procs -> {"idle", "compute", "store", "write", "done"}]
    /\ \A p \in Procs : pc[p] = "idle" => Idle(p)

\* ------------------------------------------------------------ properties
Done(p) == pc[p] = "done"
Dg(p) == _make_key(key[p])

\* the lookup of p found a readable entry: an object with payload and ts
FoundEntry(p) ==
    /\ raw[p].exists
    /\ ReadText(raw[p]).ok
    /\ LET o == Loads(raw[p].toks)
       IN /\ o.ok /\ o.v.t = "dict"
          /\ HasKey(o.v, "payload") /\ HasKey(o.v, "ts")
          /\ Lookup(o.v, "ts").t = "num"
FoundTs(p) == Lookup(Loads(raw[p].toks).v, "ts").n
Age(p) == tnow[p] - FoundTs(p)

\* the file of p's key now holds exactly one entry: payload v, stamped t,
\* with ttl u
Holds(p, v, t, u) ==
    /\ file[Dg(p)].exists
    /\ LET o == Loads(file[Dg(p)].toks)
       IN /\ o.ok /\ o.v.t = "dict"
          /\ Len(o.v.items) = 6
          /\ HasKey(o.v, "payload") /\ Lookup(o.v, "payload") = v
          /\ HasKey(o.v, "ts") /\ Lookup(o.v, "ts") = Num(t)
          /\ HasKey(o.v, "ttl") /\ Lookup(o.v, "ttl") = Num(u)

\* C1: a get that finds an entry of age < ttl does not call fun and returns
\* the payload that the last write stored
C1_HitSuppressesCompute ==
    \A p \in Procs :
        (Done(p) /\ FoundEntry(p) /\ Age(p) < ttl[p]) =>
            /\ calls[p] = 0
            /\ stored[Dg(p)].some
            /\ ret[p] = Value(Lookup(stored[Dg(p)].e, "payload"))
C1_Witness ==
    \E p \in Procs :
        /\ Done(p) /\ FoundEntry(p) /\ Age(p) < ttl[p]
        /\ calls[p] = 0 /\ ret[p].kind = "value"

\* C2: a get on a key without a file calls fun exactly once and, when fun
\* returns, stores the result as the key's entry and returns it
C2_MissComputesAndPersists ==
    \A p \in Procs :
        (Done(p) /\ ~raw[p].exists) =>
            /\ calls[p] = 1
            /\ funOut[p].kind = "value" =>
                  /\ ret[p] = funOut[p]
                  /\ \E t \in 0..now : Holds(p, funOut[p].v, t, ttl[p])
C2_Witness ==
    \E p \in Procs :
        /\ Done(p) /\ ~raw[p].exists /\ calls[p] = 1
        /\ ret[p].kind = "value" /\ Holds(p, ret[p].v, topen[p], ttl[p])

\* C3: a get that finds an entry of age > ttl calls fun and does not return
\* the stale payload; when fun returns, the entry is overwritten with the new
\* result, stamped with the clock of the write
C3_ExpiryRecomputes ==
    \A p \in Procs :
        (Done(p) /\ FoundEntry(p) /\ Age(p) > ttl[p]) =>
            /\ calls[p] = 1
            /\ ret[p] = funOut[p]
            /\ funOut[p].kind = "value" =>
                  /\ Holds(p, funOut[p].v, topen[p], ttl[p])
                  /\ tnow[p] <= topen[p] /\ topen[p] <= now
                  /\ topen[p] > FoundTs(p)
C3_Witness ==
    \E p \in Procs :
        /\ Done(p) /\ FoundEntry(p) /\ Age(p) > ttl[p]
        /\ calls[p] = 1 /\ ret[p].kind = "value"
        /\ Holds(p, ret[p].v, topen[p], ttl[p])

\* C4: when fun raises on a key without a file, get raises the same error
\* and the key still has no file
C4_FailedComputeLeavesNoTrace ==
    \A p \in Procs :
        (Done(p) /\ ~raw[p].exists /\ funOut[p].kind = "raise") =>
            /\ ret[p] = Raise(funOut[p].err)
            /\ ~file[Dg(p)].exists
            /\ ~stored[Dg(p)].some
C4_Witness ==
    \E p \in Procs :
        /\ Done(p) /\ ~raw[p].exists /\ calls[p] = 1
        /\ ret[p].kind = "raise" /\ ~file[Dg(p)].exists

\* C5: when get returns a value it got from fun, the key's file already
\* holds that value, stamped with the clock of the write and the ttl of the
\* call; until the write is done get has returned nothing
C5_PersistBeforeReturn ==
    \A p \in Procs :
        /\ (Done(p) /\ calls[p] > 0 /\ ret[p].kind = "value") =>
              /\ ret[p] = funOut[p]
              /\ Holds(p, ret[p].v, topen[p], ttl[p])
        /\ pc[p] \in {"compute", "store", "write"} => ret[p].kind = "none"
C5_Witness ==
    \E p \in Procs :
        /\ Done(p) /\ calls[p] > 0 /\ ret[p].kind = "value"
        /\ topen[p] > 0 /\ ttl[p] > 0
        /\ Holds(p, ret[p].v, topen[p], ttl[p])

\* C6 as stated: with ttl = 0 every get calls fun
C6_ZeroTtlAlwaysComputes ==
    \A p \in Procs : (Done(p) /\ ttl[p] = 0) => calls[p] = 1

\* C6 amended: with ttl = 0 a get calls fun unless it finds an entry stored
\* in the same second (now - stored_at <= 0), which it serves; a result of
\* fun is still persisted
C6_ZeroTtlSameSecondHit ==
    \A p \in Procs :
        (Done(p) /\ ttl[p] = 0) =>
            /\ calls[p] = 0 <=> (FoundEntry(p) /\ tnow[p] - FoundTs(p) <= 0)
            /\ calls[p] = 0 => ret[p] = Value(Lookup(stored[Dg(p)].e, "payload"))
            /\ calls[p] # 0 =>
                  /\ calls[p] = 1
                  /\ funOut[p].kind = "value" => Holds(p, funOut[p].v, topen[p], 0)
C6_Witness ==
    \E p \in Procs :
        /\ Done(p) /\ ttl[p] = 0 /\ FoundEntry(p) /\ Age(p) = 0
        /\ calls[p] = 0 /\ ret[p].kind = "value"

\* C7: a readable entry is served exactly when now - stored_at <= ttl
C7_FreshIffAgeAtMostTtl ==
    \A p \in Procs :
        (Done(p) /\ FoundEntry(p)) => (calls[p] = 0 <=> Age(p) <= ttl[p])
C7_Witness ==
    \E p \in Procs :
        /\ Done(p) /\ FoundEntry(p) /\ ttl[p] >= 1 /\ Age(p) = ttl[p]
        /\ calls[p] = 0 /\ ret[p].kind = "value"
\* the other side of the boundary
C7_WitnessMiss ==
    \E p \in Procs :
        Done(p) /\ FoundEntry(p) /\ Age(p) = ttl[p] + 1 /\ calls[p] = 1

\* the file is unreadable, not JSON, JSON but no object, or an object
\* without payload
IsCorrupt(f) ==
    /\ f.exists
    /\ \/ ~ReadText(f).ok
       \/ ~Loads(f.toks).ok
       \/ Loads(f.toks).v.t # "dict"
       \/ ~HasKey(Loads(f.toks).v, "payload")

\* C8: a corrupt file is a miss: get calls fun, raises nothing of its own,
\* and replaces the file by the new entry
C8_CorruptIsMiss ==
    \A p \in Procs :
        /\ (pc[p] # "idle" /\ IsCorrupt(raw[p])) =>
              /\ pc[p] = "done" => calls[p] = 1
              /\ ret[p].kind = "raise" => ret[p] = funOut[p]
        /\ (Done(p) /\ IsCorrupt(raw[p]) /\ funOut[p].kind = "value") =>
              /\ ret[p] = funOut[p]
              /\ Holds(p, funOut[p].v, topen[p], ttl[p])
C8_Witness ==
    \E p \in Procs :
        /\ Done(p) /\ IsCorrupt(raw[p])
        /\ Loads(raw[p].toks).ok /\ Loads(raw[p].toks).v.t = "dict"
        /\ IsFresh(tnow[p], 0, ttl[p])
        /\ ret[p].kind = "value" /\ Holds(p, ret[p].v, topen[p], ttl[p])

\* C9: two overlapping gets on one key that both miss both call fun and both
\* write, and when both are done the file is the entry of the one that wrote
\* last
C9_LastWriterWins ==
    \A p, q \in Procs :
        ( /\ p # q /\ Done(p) /\ Done(q) /\ key[p] = key[q]
          /\ funOut[p].kind = "value" /\ funOut[q].kind = "value"
          /\ raw[p].toks # text[q] /\ raw[q].toks # text[p] ) =>
            /\ calls[p] = 1 /\ calls[q] = 1
            /\ stored[Dg(p)].some
            /\ file[Dg(p)] = FileOf(Dumps(stored[Dg(p)].e))

\* a complete entry: an object with payload, ts and ttl and nothing else
CompleteEntry(toks) ==
    LET o == Loads(toks)
    IN /\ o.ok /\ o.v.t = "dict" /\ Len(o.v.items) = 6
       /\ HasKey(o.v, "payload") /\ HasKey(o.v, "ts") /\ HasKey(o.v, "ttl")

\* C10: whoever reads the file of a key finds no file or one complete entry
C10_AtomicReplace ==
    \A p \in Procs :
        (pc[p] # "idle" /\ raw[p].exists) => CompleteEntry(raw[p].toks)

\* C11: the file name depends on the key alone: an entry written by one
\* run is found under the same key by another run and, while fresh, is
\* returned without calling fun
C11_KeyStableAcrossRuns ==
    \A p \in Procs :
        ( /\ pc[p] # "idle"
          /\ stored[Dg(p)].some /\ stored[Dg(p)].by # p /\ stored[Dg(p)].k = key[p]
          /\ tnow[p] - Lookup(stored[Dg(p)].e, "ts").n <= ttl[p] ) =>
            /\ Done(p) /\ calls[p] = 0
            /\ ret[p] = Value(Lookup(stored[Dg(p)].e, "payload"))
C11_Witness ==
    \E p \in Procs :
        /\ Done(p) /\ calls[p] = 0 /\ ret[p].kind = "value"
        /\ stored[Dg(p)].some /\ stored[Dg(p)].by # p /\ stored[Dg(p)].k = key[p]
        /\ tnow[p] > Lookup(stored[Dg(p)].e, "ts").n

\* C12: distinct keys, also keys that differ only in case, have distinct
\* files: a get serves only an entry written for its own key, and a step
\* changes the file of a key only for a get on that key
C12_KeysDoNotCollide ==
    [][ /\ \A k1, k2 \in Keys : k1 # k2 => _make_key(k1) # _make_key(k2)
        /\ \A p \in Procs :
              (pc'[p] = "done" /\ calls'[p] = 0) => stored'[Dg(p)'].k = key'[p]
        /\ \A k \in Keys :
              (\A p \in Procs : key[p] # k) =>
                  /\ file'[_make_key(k)] = file[_make_key(k)]
                  /\ stored'[_make_key(k)] = stored[_make_key(k)] ]_vars
C12_Witness ==
    \E p \in Procs :
        /\ Done(p) /\ key[p] = "feed:a" /\ calls[p] = 1 /\ ret[p].kind = "value"
        /\ stored[_make_key("Feed:A")].some
        /\ stored[_make_key("Feed:A")].k = "Feed:A"
        /\ file[_make_key("Feed:A")] = FileOf(Dumps(stored[_make_key("Feed:A")].e))
        /\ Lookup(stored[_make_key("Feed:A")].e, "payload") # ret[p].v

\* Python's == on JSON values: lists in order, dicts as sets of pairs
RECURSIVE JsonEq(_, _)
JsonEq(a, b) ==
    IF a.t # b.t THEN FALSE
    ELSE CASE a.t = "null" -> TRUE
           [] a.t = "num" -> a.n = b.n
           [] a.t = "str" -> a.s = b.s
           [] a.t = "list" ->
                /\ Len(a.items) = Len(b.items)
                /\ \A i \in 1..Len(a.items) : JsonEq(a.items[i], b.items[i])
           [] a.t = "dict" ->
                /\ Len(a.items) = Len(b.items)
                /\ \A i \in 1..(Len(a.items) \div 2) :
                      \E j \in 1..(Len(b.items) \div 2) :
                          /\ a.items[2*i-1].t = b.items[2*j-1].t
                          /\ a.items[2*i-1].n = b.items[2*j-1].n
                          /\ a.items[2*i-1].s = b.items[2*j-1].s
                          /\ JsonEq(a.items[2*i], b.items[2*j])

\* every dict inside v has strings for keys
RECURSIVE StrKeysOnly(_)
StrKeysOnly(v) ==
    CASE v.t = "list" -> \A i \in 1..Len(v.items) : StrKeysOnly(v.items[i])
      [] v.t = "dict" ->
            \A i \in 1..(Len(v.items) \div 2) :
                v.items[2*i-1].t = "str" /\ StrKeysOnly(v.items[2*i])
      [] OTHER -> TRUE

\* value the last completed write for p's key was given by fun
LastPayload(p) == Lookup(stored[Dg(p)].e, "payload")

EntryState(f, t) ==
    IF ~f.exists THEN "absent"
    ELSE IF ~CompleteEntry(f.toks) THEN "open"
    ELSE IF t - Lookup(Loads(f.toks).v, "ts").n <= Lookup(Loads(f.toks).v, "ttl").n
         THEN "fresh" ELSE "stale"

\* C14: a file, once there, is never removed; a fresh entry turns stale by
\* the clock alone; an entry becomes fresh only when a get whose fun
\* succeeded completes its write; a file is created only by such a get
C14_EntryLifecycle ==
    [][ \A d \in Digests :
          /\ file[d].exists => file'[d].exists
          /\ (EntryState(file[d], now) = "fresh" /\ EntryState(file'[d], now') = "stale") =>
                (file'[d] = file[d] /\ now' = now + 1)
          /\ (EntryState(file[d], now) # "fresh" /\ EntryState(file'[d], now') = "fresh") =>
                \E p \in Procs :
                    /\ pc[p] = "write" /\ pc'[p] = "done" /\ Dg(p) = d
                    /\ funOut[p].kind = "value"
          /\ (~file[d].exists /\ file'[d].exists) =>
                \E p \in Procs :
                    pc[p] = "store" /\ Dg(p) = d /\ funOut[p].kind = "value" ]_vars
C14_Witness ==
    \E p \in Procs :
        /\ Done(p) /\ FoundEntry(p) /\ CompleteEntry(raw[p].toks)
        /\ EntryState(raw[p], tnow[p]) = "stale"
        /\ calls[p] = 1
        /\ EntryState(file[Dg(p)], now) = "fresh"

\* -------------------------------------------- properties of the build command

\* C15: a network or HTTP error while fetching one feed of the rss section or
\* of the comics section does not end the run: it is caught for that feed and
\* the loop goes on, so no run is ever left through such an error and each
\* section reaches its rendering with every feed fetched.
C15_FeedErrorDoesNotAbort ==
    /\ raised.exc \notin FetchErrors
    /\ (bpc = "exited" /\ raised.at \in {"rss", "comics"}) =>
           feed > Len(IF raised.at = "rss" THEN RSS_FEEDS ELSE COMIC_FEEDS)

\* C16: when the extraction of one comic fails, the comics section renders
\* the fallback line for that item and goes on with the remaining items: the
\* failure does not leave generate_sil and the build is not aborted by it.
C16_ExtractionFailureContained ==
    (\E i \in 1..Len(lines) : lines[i] = "fallback") =>
        /\ raised.exc # "ExtractionError"
        /\ bpc # "exited"

\* C17: an exception raised while one section is generated does not fail the
\* build: when the run has ended, every other configured section has been
\* generated and written.
C17_OtherSectionsStillWritten ==
    bpc = "exited" =>
        \A i \in 1..Len(SECTIONS) :
            SECTIONS[i] # raised.at => SECTIONS[i] \in silWritten

\* C18: when the SILE binary is not found as the build first runs it, the run
\* ends with exit code 127 without a cost calculation, a second pass or a
\* print; the stand-alone typesetting command returns 127 as well.
C18_MissingCompilerEndsRun ==
    /\ sile1 = "notfound" =>
           /\ bpc = "exited" /\ exit = 127
           /\ ~cost.done /\ sile2 = "none" /\ ~printed
    /\ \A input \in BOOLEAN, mkdir \in BOOLEAN, run \in {"ok", "fail", "oserror"} :
           generate_main(FALSE, input, mkdir, run) = 127

C18_Witness ==
    /\ bpc = "exited" /\ args.official /\ ~args.skip_sile
    /\ sile1 = "notfound" /\ exit = 127
    /\ silWritten = {SECTIONS[i] : i \in 1..Len(SECTIONS)}

\* C19: the build command returns 0 only when every SILE pass it ran
\* succeeded, the first and the second.
C19_ZeroOnlyIfEveryPassSucceeded ==
    (bpc = "exited" /\ exit = 0) =>
        /\ sile1 \in {"none", "ok"}
        /\ sile2 \in {"none", "ok"}

\* C20: while a run generates its sections, its cutoff is the later of the
\* timestamp the last official run recorded and the start of the run minus 48
\* hours; a run started less than 48 hours after the recorded timestamp T
\* uses T. (The clock does not move between the start of a run and the end
\* of its section loop.)
C20_CutoffIsLaterOfOfficialAndWindow ==
    bpc \in {"sections", "metajson"} =>
        /\ cutoff.aware
        /\ cutoff.t = IF lastT.some /\ lastT.t > clock - Oldest
                      THEN lastT.t ELSE clock - Oldest
        /\ (lastT.some /\ clock - lastT.t < Oldest) => cutoff.t = lastT.t

C20_Witness ==
    /\ bpc = "sections"
    /\ lastT.some /\ clock > lastT.t /\ clock - lastT.t < Oldest
    /\ cutoff.t = lastT.t

\* C21: within a run the metadata section is generated only after the run
\* has written its build/metadata.json: a written metadata.sil was rendered
\* from the current run's file, and the section never fails for want of the
\* file.
C21_MetadataSilFromThisRun ==
    /\ "metadata" \in silWritten => metaSil = "current"
    /\ raised.exc # "FileNotFoundError"

\* C22: the printer is invoked only in an official run that did not skip
\* typesetting, whose first SILE pass succeeded and whose cost estimate has
\* no error, and only if the cost is under the threshold or the user answered
\* y or yes to the prompt.
C22_PrintOnlyWhenAllowed ==
    printed =>
        /\ args.official /\ ~args.skip_sile
        /\ sile1 = "ok"
        /\ cost.done /\ ~cost.err
        /\ \/ cost.cents < PRINT_THRESHOLD_USD
           \/ prompt \in {"y", "YES", " Yes "}

C22_Witness ==
    /\ printed /\ bpc = "exited"
    /\ cost.cents >= PRINT_THRESHOLD_USD
    /\ prompt = " Yes "

\* C23: only a run marked official changes the recorded last-official
\* timestamp: any step that changes data/cache/official.json is the
\* recording step of a run started with --official, and every step of a run
\* without it leaves the file as it was.
C23_OnlyOfficialRunsRecord ==
    [][ /\ (official' # official \/ lastT' # lastT) =>
               (args.official /\ bpc = "record")
        /\ (bpc # "idle" /\ bpc # "exited" /\ ~args.official) =>
               official' = official
      ]_vars

C23_Witness ==
    /\ bpc = "exited" /\ exit = 0 /\ ~args.official
    /\ lastT.some /\ clock > lastT.t
    /\ official = record_official_timestamp(Utc(lastT.t))

\* C24: only successful feed fetches are written to the cache: the cache
\* never holds the error placeholder of a failed fetch, so the next lookup
\* of that feed fetches again.
C24_PlaceholderNeverCached ==
    \A f \in 1..Len(COMIC_FEEDS) : feedCache[f] # "placeholder"

\* ------------------------------------------------ properties of fetch_emails

\* C25: fetch_emails returns the unread messages of every configured
\* account: every message an account's search answered and that is not older
\* than the cutoff is in the returned list, whichever account it came from.
C25_EveryAccountInResult ==
    epc = "done" =>
        \A i \in 1..Len(inboxes) : \A j \in 1..Len(inboxes[i]) :
            inboxes[i][j] >= cutoff_time.t =>
                \E k \in 1..Len(all_emails) :
                    all_emails[k] = Mail(i, j, inboxes[i][j])

\* C26: across two consecutive official runs less than 48 hours apart no
\* feed item is lost: when the second run's since filter removes an item,
\* that item was published no later than the first run's fetch of the feeds.
C26_NoItemLostBetweenOfficialRuns ==
    [][ ( /\ args.official
          /\ lastT.some /\ fetchedAt.some
          /\ clock - lastT.t < Oldest
          /\ Len(dropped') > Len(dropped) ) =>
            dropped'[Len(dropped')] <= fetchedAt.t
      ]_vars

\* ------------------------------------------- further properties of the cache

\* the ttl recorded in the entry the lookup of p found
FoundTtl(p) == Lookup(Loads(raw[p].toks).v, "ttl")

\* C27: freshness is judged against the ttl argument of the current call,
\* not against the ttl recorded in the entry: an entry written with another
\* ttl is a hit exactly when its age is at most the caller's ttl.
C27_CallerTtlDecides ==
    \A p \in Procs :
        ( /\ Done(p) /\ FoundEntry(p)
          /\ HasKey(Loads(raw[p].toks).v, "ttl")
          /\ FoundTtl(p) # Num(ttl[p]) ) =>
            /\ Age(p) <= ttl[p] => (calls[p] = 0 /\ ret[p].kind = "value")
            /\ Age(p) > ttl[p] => calls[p] = 1

C27_Witness ==
    \E p \in Procs :
        /\ Done(p) /\ FoundEntry(p)
        /\ FoundTtl(p) = Num(0) /\ Age(p) = 1 /\ ttl[p] = 1
        /\ calls[p] = 0 /\ ret[p].kind = "value"

\* C28: a hit leaves the stored entry as it was, payload, stored_at and ttl:
\* the step that serves an entry changes no file, and whatever is served
\* was written no more than ttl seconds before.
C28_HitLeavesEntryUnchanged ==
    [][ \A p \in Procs :
            (pc[p] = "idle" /\ pc'[p] = "done") =>
                /\ file' = file
                /\ stored' = stored
                /\ stored[_make_key(key'[p])].some
                /\ now - Lookup(stored[_make_key(key'[p])].e, "ts").n <= ttl'[p]
      ]_vars

C28_Witness ==
    \E p \in Procs :
        /\ Done(p) /\ calls[p] = 0 /\ ret[p].kind = "value"
        /\ file[Dg(p)] = raw[p]
        /\ stored[Dg(p)].some
        /\ FoundTs(p) = Lookup(stored[Dg(p)].e, "ts").n
        /\ Age(p) >= 1

\* C29: when fun raises during a get that found a stale or corrupt file,
\* the file is left exactly as the lookup found it and get raises fun's
\* error.
C29_FailedComputeKeepsOldFile ==
    \A p \in Procs :
        (Done(p) /\ raw[p].exists /\ funOut[p].kind = "raise") =>
            /\ file[Dg(p)] = raw[p]
            /\ ret[p] = funOut[p]

C29_Witness ==
    \E p \in Procs :
        /\ Done(p) /\ FoundEntry(p) /\ Age(p) > ttl[p]
        /\ funOut[p].kind = "raise" /\ ret[p].kind = "raise"
        /\ file[Dg(p)] = raw[p]

\* the same for a corrupt file
C29_WitnessCorrupt ==
    \E p \in Procs :
        /\ Done(p) /\ IsCorrupt(raw[p])
        /\ funOut[p].kind = "raise"
        /\ file[Dg(p)] = raw[p]

====
